---- MODULE Spec2Model ----
(***************************************************************************)
(* Model of the query-construction and response-aggregation core of        *)
(* src/app.py: build_reglisting_search, fetch_reglisting,                  *)
(* lookup_product_codes_by_name, build_510k_search / fetch_510k and        *)
(* build_maude_queries / fetch_maude_year_counts.                          *)
(*                                                                         *)
(* A Python str is a sequence of text fragments (single characters where   *)
(* the code looks at characters, whole literals otherwise); the empty str  *)
(* and None are both the empty sequence, as both are falsy in every test   *)
(* the code makes.  A list of results is a sequence of runs                *)
(* [rec |-> r, n |-> k]: k consecutive records equal to r.                 *)
(* The remote endpoint is the environment: each requests.get either raises *)
(* (timeout / connection failure) or answers with a status and a payload.  *)
(***************************************************************************)
EXTENDS Integers, Sequences, FiniteSets, TLC

VARIABLES op, pc, iso2, product_codes, max_records, applicant, firm_name,
          search, rows, skip, fetched, codes, queries, qi, frames,
          year_counts, df, requests, responses

vars == <<op, pc, iso2, product_codes, max_records, applicant, firm_name,
          search, rows, skip, fetched, codes, queries, qi, frames,
          year_counts, df, requests, responses>>

\* the arguments of the running call
args == <<op, iso2, product_codes, max_records, applicant, firm_name>>

\* ---------------------------------------------------------------- bounds
MaxCodes == 2
MaxCapHundreds == 30
MaxResults == 2
MaxMaudePages == 2

\* ------------------------------------------------------------- constants
limit == 1000
max_per_query == 200
lookup_limit == 50

\* --------------------------------------------------------------- strings
US == <<"U", "S">>
dqd == <<"d", "q", "d">>
fmf == <<"f", "m", "f">>
DQD == <<"D", "Q", "D">>
FMF == <<"F", "M", "F">>

Acme == <<"Acme">>
d20200115 == <<"2", "0", "2", "0", "0", "1", "1", "5">>
d20201231 == <<"2", "0", "2", "0", "1", "2", "3", "1">>
d20210301 == <<"2", "0", "2", "1", "0", "3", "0", "1">>
dNA == <<"N", "/", "A">>

\* code point of a character
ord(c) ==
    CASE c = "/" -> 47
      [] c = "0" -> 48
      [] c = "1" -> 49
      [] c = "2" -> 50
      [] c = "3" -> 51
      [] c = "5" -> 53
      [] c = "A" -> 65
      [] c = "D" -> 68
      [] c = "E" -> 69
      [] c = "F" -> 70
      [] c = "M" -> 77
      [] c = "N" -> 78
      [] c = "Q" -> 81
      [] c = "S" -> 83
      [] c = "U" -> 85
      [] c = "d" -> 100
      [] c = "f" -> 102
      [] c = "m" -> 109
      [] c = "q" -> 113
      [] c = "s" -> 115
      [] c = "u" -> 117

\* Python's str < str
RECURSIVE StrLess(_, _)
StrLess(a, b) ==
    IF b = <<>> THEN FALSE
    ELSE IF a = <<>> THEN TRUE
    ELSE IF a[1] = b[1] THEN StrLess(Tail(a), Tail(b))
    ELSE ord(a[1]) < ord(b[1])

\* sorted(S) for a set of str
RECURSIVE sorted(_)
sorted(S) ==
    IF S = {} THEN <<>>
    ELSE LET m == CHOOSE x \in S : \A y \in S \ {x} : StrLess(x, y)
         IN <<m>> \o sorted(S \ {m})

isdigit(s) == s # <<>> /\ \A i \in DOMAIN s : ord(s[i]) \in 48..57

RECURSIVE int(_)
int(s) ==
    IF s = <<>> THEN 0 ELSE 10 * int(SubSeq(s, 1, Len(s) - 1)) + (ord(s[Len(s)]) - 48)

Orderings(S) ==
    {o \in [1..Cardinality(S) -> S] : \A i, j \in DOMAIN o : o[i] = o[j] => i = j}

UpperChar(c) ==
    CASE c = "d" -> "D"
      [] c = "q" -> "Q"
      [] c = "f" -> "F"
      [] c = "m" -> "M"
      [] c = "u" -> "U"
      [] c = "s" -> "S"
      [] OTHER -> c

upper(s) == [i \in DOMAIN s |-> UpperChar(s[i])]

TruthyAlways(s) == TRUE

Truthy(s) == s # <<>>

RECURSIVE join(_, _)
join(sep, parts) ==
    IF parts = <<>> THEN <<>>
    ELSE IF Len(parts) = 1 THEN parts[1]
    ELSE parts[1] \o sep \o join(sep, Tail(parts))

\* ------------------------------------------------ build_reglisting_search
RECURSIVE ProductParts(_)
ProductParts(pcs) ==
    IF pcs = <<>> THEN <<>>
    ELSE (IF Truthy(pcs[1])
          THEN << <<"products.product_code:">> \o upper(pcs[1]) >>
          ELSE <<>>) \o ProductParts(Tail(pcs))

build_reglisting_search(i2, pcs) ==
    LET parts == (IF Truthy(i2)
                  THEN << <<"registration.iso_country_code:">> \o i2 >>
                  ELSE <<>>) \o ProductParts(pcs)
    IN join(<<"+">>, parts)

\* -------------------------------------------------------- result lists
RECURSIVE len(_)
len(results) ==
    IF results = <<>> THEN 0 ELSE results[1].n + len(Tail(results))

\* ------------------------------------------------------ build_510k_search
\* the set `queries`; list(queries) is one of its orderings
build_510k_search(app, pcs0) ==
    LET pcs == SelectSeq(pcs0, Truthy) IN
    (IF Truthy(app)
     THEN {<<"applicant:\"">> \o app \o <<"\" + product_code:">> \o pcs[i] :
              i \in DOMAIN pcs}
     ELSE {})
    \cup {<<"product_code:">> \o pcs[i] : i \in DOMAIN pcs}

\* ---------------------------------------------------- build_maude_queries
RECURSIVE PcFilters(_)
PcFilters(pcs) ==
    IF pcs = <<>> THEN <<>>
    ELSE << <<"device.product_code:">> \o pcs[1] >> \o PcFilters(Tail(pcs))

build_maude_queries(firm, pcs0) ==
    LET pcs == SelectSeq(pcs0, Truthy) IN
    IF pcs = <<>>
    THEN << <<"manufacturer_name:\"">> \o firm \o <<"\"">>,
            <<"device.manufacturer_d_name:\"">> \o firm \o <<"\"">> >>
    ELSE << <<"manufacturer_name:\"">> \o firm \o <<"\"+(">>
                \o join(<<"+">>, PcFilters(pcs)) \o <<")">>,
            <<"device.manufacturer_d_name:\"">> \o firm \o <<"\"+(">>
                \o join(<<"+">>, PcFilters(pcs)) \o <<")">> >>

\* ------------------------------------------------------------- inputs
Codes == {<<>>, dqd, fmf, DQD}
Iso2s == {<<>>, US, <<"D", "E">>}
CodeLists == UNION {[1..k -> Codes] : k \in 0..MaxCodes}
Caps == {-1, 1, limit - 1, limit + 1} \cup {100 * k : k \in 0..MaxCapHundreds}
MaudeCaps == {-1, 0, 1} \cup {limit * k : k \in 1..MaxMaudePages}
PageLens == {0, 1, limit - 1, limit, limit + 1}
ErrorStatuses == {404, 500}

ReglistingFilters ==
    {[iso2 |-> US, product_codes |-> <<dqd, fmf>>],
     [iso2 |-> <<>>, product_codes |-> <<>>]}

Inputs510k ==
    {[applicant |-> <<>>, product_codes |-> <<>>],
     [applicant |-> Acme, product_codes |-> <<DQD>>],
     [applicant |-> Acme, product_codes |-> <<DQD, DQD>>],
     [applicant |-> <<>>, product_codes |-> <<DQD, <<>>, FMF>>],
     [applicant |-> <<>>, product_codes |-> <<DQD, FMF, dqd>>]}

InputsMaude == {<<>>, <<DQD, <<>>, FMF>>}

\* the page the endpoint sends in answer to the i-th request: k records
Page(i, k) == IF k = 0 THEN <<>> ELSE <<[rec |-> i, n |-> k]>>

Raises == [exc |-> TRUE, status |-> 0, results |-> <<>>]
Answer(s, r) == [exc |-> FALSE, status |-> s, results |-> r]

ReglistingResponses(i) ==
    {Raises} \cup {Answer(s, <<>>) : s \in ErrorStatuses}
             \cup {Answer(200, Page(i, k)) : k \in PageLens}

\* classification records: the product_code of each (<<>>: none)
LookupResults == UNION {[1..k -> {<<>>, DQD, FMF, dqd}] : k \in 0..MaxResults}

LookupResponses ==
    {Raises} \cup {Answer(s, <<>>) : s \in ErrorStatuses}
             \cup {Answer(200, r) : r \in LookupResults}

\* 510(k) records
Records510k ==
    {[k_number |-> "K1", decision_date |-> d20210301],
     [k_number |-> "K1", decision_date |-> d20200115],
     [k_number |-> "K2", decision_date |-> <<>>]}

Results510k == UNION {[1..k -> Records510k] : k \in 0..MaxResults}

Responses510k ==
    {Raises} \cup {Answer(s, <<>>) : s \in ErrorStatuses}
             \cup {Answer(200, r) : r \in Results510k}

\* MAUDE event records
recReceived == [date_received |-> d20200115, event_date |-> <<>>]
recEvent == [date_received |-> <<>>, event_date |-> d20210301]
recBoth == [date_received |-> d20201231, event_date |-> d20210301]
recUndated == [date_received |-> <<>>, event_date |-> <<>>]
recBadDate == [date_received |-> dNA, event_date |-> d20210301]

MaudePages ==
    {<<>>,
     <<[rec |-> recReceived, n |-> 1]>>,
     <<[rec |-> recUndated, n |-> 1]>>,
     <<[rec |-> recBadDate, n |-> 2], [rec |-> recBoth, n |-> 1]>>,
     <<[rec |-> recReceived, n |-> limit]>>,
     <<[rec |-> recUndated, n |-> limit]>>,
     <<[rec |-> recEvent, n |-> limit - 1], [rec |-> recBoth, n |-> 1]>>,
     <<[rec |-> recBadDate, n |-> 1], [rec |-> recUndated, n |-> limit - 1]>>}

MaudeResponses ==
    {Raises} \cup {Answer(s, <<>>) : s \in ErrorStatuses}
             \cup {Answer(200, r) : r \in MaudePages}

Ops == {"build_reglisting_search", "fetch_reglisting",
        "lookup_product_codes_by_name", "fetch_510k",
        "fetch_maude_year_counts"}

\* ----------------------------------------------------------------- Init
Init ==
    /\ op \in Ops
    /\ pc = "call"
    /\ CASE op = "build_reglisting_search" ->
              /\ iso2 \in Iso2s
              /\ product_codes \in CodeLists
              /\ max_records = 0
              /\ applicant = <<>>
              /\ firm_name = <<>>
         [] op = "fetch_reglisting" ->
              /\ \E f \in ReglistingFilters :
                    iso2 = f.iso2 /\ product_codes = f.product_codes
              /\ max_records \in Caps
              /\ applicant = <<>>
              /\ firm_name = <<>>
         [] op = "lookup_product_codes_by_name" ->
              /\ iso2 = <<>>
              /\ product_codes = <<>>
              /\ max_records = 0
              /\ applicant = <<>>
              /\ firm_name = <<>>
         [] op = "fetch_510k" ->
              /\ iso2 = <<>>
              /\ \E f \in Inputs510k :
                    applicant = f.applicant /\ product_codes = f.product_codes
              /\ max_records = 0
              /\ firm_name = <<>>
         [] op = "fetch_maude_year_counts" ->
              /\ iso2 = <<>>
              /\ product_codes \in InputsMaude
              /\ max_records \in MaudeCaps
              /\ applicant = <<>>
              /\ firm_name = Acme
    /\ search = <<>>
    /\ rows = <<>>
    /\ skip = 0
    /\ fetched = 0
    /\ codes = <<>>
    /\ queries = <<>>
    /\ qi = 0
    /\ frames = <<>>
    /\ year_counts = <<>>
    /\ df = <<>>
    /\ requests = <<>>
    /\ responses = <<>>

\* --------------------------------------------- build_reglisting_search()
BuildReglistingSearch ==
    /\ op = "build_reglisting_search"
    /\ pc = "call"
    /\ search' = build_reglisting_search(iso2, product_codes)
    /\ pc' = "done"
    /\ UNCHANGED <<args, rows, skip, fetched, codes, queries, qi, frames,
                   year_counts, df, requests, responses>>

\* ----------------------------------------------------- fetch_reglisting
CapOpenTruncating(f, m) == f + limit <= m

CapOpen(f, m) == f < m

StatusOk(r) == r.status = 200

ShortPageNever(n) == FALSE

ShortPage(n) == n < limit

NextSkipByLimit(s, n) == s + limit

NextSkip(s, n) == s + n

FetchReglistingStart ==
    /\ op = "fetch_reglisting"
    /\ pc = "call"
    /\ rows' = <<>>
    /\ skip' = 0
    /\ fetched' = 0
    /\ search' = build_reglisting_search(iso2, product_codes)
    /\ pc' = "loop"
    /\ UNCHANGED <<args, codes, queries, qi, frames, year_counts, df,
                   requests, responses>>

\* as FetchReglistingPage, but a failed page is asked for again
FetchReglistingPageRetrying(r) ==
    /\ op = "fetch_reglisting"
    /\ pc = "loop"
    /\ CapOpen(fetched, max_records)
    /\ requests' = Append(requests,
                     [search |-> search, limit |-> limit, skip |-> skip,
                      acc |-> len(rows)])
    /\ responses' = Append(responses, r)
    /\ IF r.exc
       THEN /\ pc' = "raised"
            /\ UNCHANGED <<rows, fetched, skip>>
       ELSE IF ~StatusOk(r)
       THEN /\ pc' = "loop"
            /\ UNCHANGED <<rows, fetched, skip>>
       ELSE IF r.results = <<>>
       THEN /\ pc' = "done"
            /\ UNCHANGED <<rows, fetched, skip>>
       ELSE LET n == len(r.results) IN
            /\ rows' = rows \o r.results
            /\ fetched' = fetched + n
            /\ IF ShortPage(n)
               THEN /\ pc' = "done"
                    /\ skip' = skip
               ELSE /\ pc' = "loop"
                    /\ skip' = NextSkip(skip, n)
    /\ UNCHANGED <<args, search, codes, queries, qi, frames, year_counts, df>>

\* one pass through the while body: the request, then the handling of r
FetchReglistingPage(r) ==
    /\ op = "fetch_reglisting"
    /\ pc = "loop"
    /\ CapOpen(fetched, max_records)
    /\ requests' = Append(requests,
                     [search |-> search, limit |-> limit, skip |-> skip,
                      acc |-> len(rows)])
    /\ responses' = Append(responses, r)
    /\ IF r.exc
       THEN /\ pc' = "raised"
            /\ UNCHANGED <<rows, fetched, skip>>
       ELSE IF ~StatusOk(r)
       THEN /\ pc' = "done"
            /\ UNCHANGED <<rows, fetched, skip>>
       ELSE IF r.results = <<>>
       THEN /\ pc' = "done"
            /\ UNCHANGED <<rows, fetched, skip>>
       ELSE LET n == len(r.results) IN
            /\ rows' = rows \o r.results
            /\ fetched' = fetched + n
            /\ IF ShortPage(n)
               THEN /\ pc' = "done"
                    /\ skip' = skip
               ELSE /\ pc' = "loop"
                    /\ skip' = NextSkip(skip, n)
    /\ UNCHANGED <<args, search, codes, queries, qi, frames, year_counts, df>>

FetchReglistingReturn ==
    /\ op = "fetch_reglisting"
    /\ pc = "loop"
    /\ ~CapOpen(fetched, max_records)
    /\ pc' = "done"
    /\ UNCHANGED <<args, search, rows, skip, fetched, codes, queries, qi,
                   frames, year_counts, df, requests, responses>>

\* ----------------------------------------- lookup_product_codes_by_name
RECURSIVE ProductCodeSet(_)
ProductCodeSet(results) ==
    IF results = <<>> THEN {}
    ELSE (IF Truthy(results[1]) THEN {results[1]} ELSE {})
         \cup ProductCodeSet(Tail(results))

LookupProductCodesByName(r) ==
    /\ op = "lookup_product_codes_by_name"
    /\ pc = "call"
    /\ requests' = Append(requests,
                     [search |-> <<"device_name:">>, limit |-> lookup_limit,
                      skip |-> 0, acc |-> 0])
    /\ responses' = Append(responses, r)
    /\ IF r.exc
       THEN pc' = "raised" /\ codes' = codes
       ELSE IF ~StatusOk(r)
       THEN pc' = "done" /\ codes' = <<>>
       ELSE pc' = "done" /\ codes' = sorted(ProductCodeSet(r.results))
    /\ UNCHANGED <<args, search, rows, skip, fetched, queries, qi, frames,
                   year_counts, df>>

\* ------------------------------------------------------------ fetch_510k
RECURSIVE concat(_)
concat(fs) == IF fs = <<>> THEN <<>> ELSE fs[1] \o concat(Tail(fs))

KeepLast(t, i) == \A j \in DOMAIN t : j > i => t[j].k_number # t[i].k_number

KeepFirst(t, i) == \A j \in DOMAIN t : j < i => t[j].k_number # t[i].k_number

RECURSIVE KeptFrom(_, _)
KeptFrom(t, i) ==
    IF i > Len(t) THEN <<>>
    ELSE (IF KeepFirst(t, i) THEN <<t[i]>> ELSE <<>>) \o KeptFrom(t, i + 1)

drop_duplicates(t) == KeptFrom(t, 1)

\* decision_date descending, missing dates last
DateDescending(t) ==
    \A i, j \in DOMAIN t : i < j =>
        /\ t[i].decision_date = <<>> => t[j].decision_date = <<>>
        /\ ~StrLess(t[i].decision_date, t[j].decision_date)
           \/ t[i].decision_date = <<>>

\* the orderings sort_values may give a table
sort_values(t) ==
    {s \in {[i \in DOMAIN t |-> t[o[i]]] : o \in Orderings(DOMAIN t)} :
        DateDescending(s)}

\* lines 153-170: the table returned for the frames gathered; the records
\* carry the two columns that drop_duplicates and sort_values read
Returned510k(fs) ==
    IF fs = <<>> THEN {<<>>}
    ELSE sort_values(drop_duplicates(concat(fs)))

Fetch510kStart ==
    /\ op = "fetch_510k"
    /\ pc = "call"
    /\ queries' \in Orderings(build_510k_search(applicant, product_codes))
    /\ frames' = <<>>
    /\ qi' = 1
    /\ IF build_510k_search(applicant, product_codes) = {}
       THEN pc' = "done" /\ df' \in Returned510k(<<>>)
       ELSE pc' = "for" /\ df' = df
    /\ UNCHANGED <<args, search, rows, skip, fetched, codes, year_counts,
                   requests, responses>>

\* one pass through the for body; after the last query, the return
Fetch510kQuery(r) ==
    /\ op = "fetch_510k"
    /\ pc = "for"
    /\ qi <= Len(queries)
    /\ requests' = Append(requests,
                     [search |-> queries[qi], limit |-> max_per_query,
                      skip |-> 0, acc |-> Len(concat(frames))])
    /\ responses' = Append(responses, r)
    /\ IF r.exc
       THEN pc' = "raised" /\ UNCHANGED <<frames, qi, df>>
       ELSE /\ qi' = qi + 1
            /\ IF ~StatusOk(r) THEN frames' = frames
               ELSE IF r.results = <<>> THEN frames' = frames
               ELSE frames' = Append(frames, r.results)
            /\ IF qi = Len(queries)
               THEN pc' = "done" /\ df' \in Returned510k(frames')
               ELSE pc' = "for" /\ df' = df
    /\ UNCHANGED <<args, search, rows, skip, fetched, codes, queries,
                   year_counts>>

\* ----------------------------------------------- fetch_maude_year_counts
date_str_event_first(rec) ==
    IF Truthy(rec.event_date) THEN rec.event_date ELSE rec.date_received

date_str(rec) ==
    IF Truthy(rec.date_received) THEN rec.date_received ELSE rec.event_date

year(s) == SubSeq(s, 1, IF Len(s) < 4 THEN Len(s) ELSE 4)

\* year_counts is a sequence of [year, count] entries in insertion order
Has(yc, y) == \E i \in DOMAIN yc : yc[i].year = y

Add(yc, y, k) ==
    IF Has(yc, y)
    THEN [i \in DOMAIN yc |->
            IF yc[i].year = y THEN [yc[i] EXCEPT !.count = @ + k] ELSE yc[i]]
    ELSE Append(yc, [year |-> y, count |-> k])

RECURSIVE CountResults(_, _)
CountResults(yc, results) ==
    IF results = <<>> THEN yc
    ELSE LET d == date_str(results[1].rec) IN
         CountResults(
            IF Truthy(d) /\ isdigit(year(d))
            THEN Add(yc, year(d), results[1].n) ELSE yc,
            Tail(results))

StopEarlyNever(yc) == FALSE

StopEarly(yc) == yc # <<>>

\* lines 233-239: the table of (year, count) by ascending year
RECURSIVE YearRows(_, _)
YearRows(yc, ys) ==
    IF ys = <<>> THEN <<>>
    ELSE LET e == CHOOSE e \in {yc[i] : i \in DOMAIN yc} : e.year = ys[1]
         IN <<[year |-> int(e.year), count |-> e.count]>>
            \o YearRows(yc, Tail(ys))

YearAscending(t) == \A i, j \in DOMAIN t : i < j => t[i].year <= t[j].year

year_frame(yc) ==
    IF yc = <<>> THEN {<<>>}
    ELSE LET t == YearRows(yc, sorted({yc[i].year : i \in DOMAIN yc})) IN
         {s \in {[i \in DOMAIN t |-> t[o[i]]] : o \in Orderings(DOMAIN t)} :
             YearAscending(s)}

FetchMaudeStart ==
    /\ op = "fetch_maude_year_counts"
    /\ pc = "call"
    /\ queries' = build_maude_queries(firm_name, product_codes)
    /\ year_counts' = <<>>
    /\ qi' = 0
    /\ pc' = "for"
    /\ UNCHANGED <<args, search, rows, skip, fetched, codes, frames, df,
                   requests, responses>>

\* the for statement: take the next query, or fall out of the loop and return
FetchMaudeFor ==
    /\ op = "fetch_maude_year_counts"
    /\ pc = "for"
    /\ IF qi < Len(queries)
       THEN /\ qi' = qi + 1
            /\ fetched' = 0
            /\ skip' = 0
            /\ pc' = "loop"
            /\ df' = df
       ELSE /\ pc' = "done"
            /\ df' \in year_frame(year_counts)
            /\ UNCHANGED <<qi, fetched, skip>>
    /\ UNCHANGED <<args, search, rows, codes, queries, frames, year_counts,
                   requests, responses>>

\* leaving the while loop: lines 229-231, then the return when breaking
MaudeAfterWhile(yc) ==
    IF StopEarly(yc)
    THEN pc' = "done" /\ df' \in year_frame(yc)
    ELSE pc' = "for" /\ df' = df

\* one pass through the while body
FetchMaudePage(r) ==
    /\ op = "fetch_maude_year_counts"
    /\ pc = "loop"
    /\ CapOpen(fetched, max_records)
    /\ requests' = Append(requests,
                     [search |-> queries[qi], limit |-> limit, skip |-> skip,
                      acc |-> fetched])
    /\ responses' = Append(responses, r)
    /\ IF r.exc
       THEN /\ pc' = "raised"
            /\ UNCHANGED <<year_counts, fetched, skip, df>>
       ELSE IF ~StatusOk(r) \/ r.results = <<>>
       THEN /\ MaudeAfterWhile(year_counts)
            /\ UNCHANGED <<year_counts, fetched, skip>>
       ELSE LET n == len(r.results)
                yc == CountResults(year_counts, r.results) IN
            /\ year_counts' = yc
            /\ fetched' = fetched + n
            /\ IF ShortPage(n)
               THEN /\ MaudeAfterWhile(yc)
                    /\ skip' = skip
               ELSE /\ pc' = "loop"
                    /\ skip' = NextSkip(skip, n)
                    /\ df' = df
    /\ UNCHANGED <<args, search, rows, codes, queries, qi, frames>>

FetchMaudeWhileExit ==
    /\ op = "fetch_maude_year_counts"
    /\ pc = "loop"
    /\ ~CapOpen(fetched, max_records)
    /\ MaudeAfterWhile(year_counts)
    /\ UNCHANGED <<args, search, rows, skip, fetched, codes, queries, qi,
                   frames, year_counts, requests, responses>>

\* ------------------------------------------------------------------ Next
Next ==
    \/ BuildReglistingSearch
    \/ FetchReglistingStart
    \/ \E r \in ReglistingResponses(Len(requests) + 1) : FetchReglistingPage(r)
    \/ FetchReglistingReturn
    \/ \E r \in LookupResponses : LookupProductCodesByName(r)
    \/ Fetch510kStart
    \/ \E r \in Responses510k : Fetch510kQuery(r)
    \/ FetchMaudeStart
    \/ FetchMaudeFor
    \/ \E r \in MaudeResponses : FetchMaudePage(r)
    \/ FetchMaudeWhileExit

Spec == Init /\ [][Next]_vars

\* ============================================================ properties
\* what the history of the call shows, computed from requests and responses
Ok(i) == ~responses[i].exc /\ responses[i].status = 200
Failed(i) == ~responses[i].exc /\ responses[i].status # 200
Received(i) == IF Ok(i) THEN responses[i].results ELSE <<>>
Skips == [i \in DOMAIN requests |-> requests[i].skip]

RECURSIVE ReceivedUpTo(_)
ReceivedUpTo(i) == IF i = 0 THEN <<>> ELSE ReceivedUpTo(i - 1) \o Received(i)

Ceil(a, b) == IF a <= 0 THEN 0 ELSE (a + b - 1) \div b

Reg == op = "fetch_reglisting"

\* C1: with a cap of 2500 and an endpoint that always answers 200 with 1000
\* results, fetch_reglisting sends exactly the offsets 0, 1000, 2000 and
\* returns 3000 records; whatever the cap, every page received is kept whole,
\* so the returned rows are all the records of all the pages.
C1_ThreePagesPastCap ==
    Reg =>
      /\ (max_records = 2500
          /\ \A i \in DOMAIN responses : Ok(i) /\ len(Received(i)) = 1000)
         => /\ Len(requests) <= 3
            /\ Skips = SubSeq(<<0, 1000, 2000>>, 1, Len(requests))
            /\ pc = "done" => Len(requests) = 3 /\ len(rows) = 3000
      /\ rows = ReceivedUpTo(Len(responses))

C1_Witness ==
    /\ Reg /\ pc = "done" /\ max_records = 2500
    /\ Len(requests) = 3
    /\ \A i \in DOMAIN responses : Ok(i) /\ len(Received(i)) = 1000
    /\ len(rows) > max_records

\* C2: in fetch_reglisting a successful page of fewer than 1000 results, the
\* empty page included, is the last request of the call, even under the cap,
\* and its records are in the returned rows.
C2_ShortPageStops ==
    Reg =>
      \A i \in DOMAIN responses :
        (Ok(i) /\ len(Received(i)) < 1000) =>
          /\ i = Len(requests)
          /\ pc = "done"
          /\ \A k \in DOMAIN Received(i) :
                \E j \in DOMAIN rows : rows[j] = Received(i)[k]

C2_Witness ==
    /\ Reg /\ pc = "done"
    /\ Len(requests) = 2
    /\ Ok(2) /\ len(Received(2)) = 1
    /\ len(rows) < max_records

\* C3: in fetch_reglisting a page answered with a non-success status is the
\* last request of the call (no retry, no later page) and the call returns
\* normally with exactly the records of the earlier pages.
C3_FailedPageStops ==
    Reg =>
      \A i \in DOMAIN responses :
        Failed(i) =>
          /\ i = Len(requests)
          /\ pc = "done"
          /\ rows = ReceivedUpTo(i - 1)

C3_Witness ==
    /\ Reg /\ pc = "done"
    /\ Len(requests) = 2
    /\ Failed(2)
    /\ len(rows) = 1000 /\ len(rows) < max_records

\* C4: a timeout or connection failure of a network call never makes the
\* operation raise; it returns what it has gathered.
C4_NeverRaises == pc # "raised"

\* C5: for country US and product codes dqd, fmf the builder returns the
\* country clause AND-ed with a parenthesised OR-group of the two exact-match
\* product-code clauses, upper-cased; two or more product codes are always
\* OR-combined in one group.
ExactClause(pcode) == <<"products.product_code.exact:">> \o upper(pcode)

RECURSIVE ExactClauses(_)
ExactClauses(pcs) ==
    IF pcs = <<>> THEN <<>>
    ELSE <<ExactClause(pcs[1])>> \o ExactClauses(Tail(pcs))

C5_OrGroupOfExactClauses ==
    (op = "build_reglisting_search" /\ pc = "done" /\ iso2 # <<>>
     /\ Len(SelectSeq(product_codes, Truthy)) >= 2)
    => search = <<"registration.iso_country_code:">> \o iso2 \o <<"+", "(">>
                \o join(<<"+OR+">>, ExactClauses(SelectSeq(product_codes, Truthy)))
                \o <<")">>

\* C6: the builder returns the empty string for an empty filter set, and for
\* every filter it returns a query with one clause per non-empty entry:
\* empty product codes and an empty country leave no clause and no separator.
Occurrences(s, frag) == Cardinality({i \in DOMAIN s : s[i] = frag})

NonEmptyCodes == Cardinality({i \in DOMAIN product_codes : product_codes[i] # <<>>})

C6_EmptyFilterEmptyQuery ==
    (op = "build_reglisting_search" /\ pc = "done") =>
      LET clauses == NonEmptyCodes + (IF iso2 = <<>> THEN 0 ELSE 1) IN
      /\ Occurrences(search, "products.product_code:") = NonEmptyCodes
      /\ Occurrences(search, "registration.iso_country_code:")
            = (IF iso2 = <<>> THEN 0 ELSE 1)
      /\ Occurrences(search, "+") = (IF clauses = 0 THEN 0 ELSE clauses - 1)
      /\ clauses = 0 => search = <<>>

C6_Witness ==
    /\ op = "build_reglisting_search" /\ pc = "done"
    /\ iso2 = <<>>
    /\ product_codes = << <<>>, <<>> >>
    /\ search = <<>>

\* the year a MAUDE record is filed under, read off the record itself:
\* date_received, else event_date; -1 when its first four characters are
\* not all digits
FiledUnder(rec) ==
    LET d == IF rec.date_received # <<>> THEN rec.date_received
             ELSE rec.event_date
        k == IF Len(d) < 4 THEN Len(d) ELSE 4
    IN IF k > 0 /\ \A i \in 1..k : d[i] \in {"0", "1", "2", "3", "5"}
       THEN int(SubSeq(d, 1, k)) ELSE -1

RECURSIVE RunsFiled(_, _)
RunsFiled(results, y) ==
    IF results = <<>> THEN 0
    ELSE (IF FiledUnder(results[1].rec) = y THEN results[1].n ELSE 0)
         + RunsFiled(Tail(results), y)

\* records filed under year y among the responses i with q = requests[i].search
RECURSIVE FiledBy(_, _, _)
FiledBy(i, q, y) ==
    IF i = 0 THEN 0
    ELSE (IF requests[i].search = q THEN RunsFiled(Received(i), y) ELSE 0)
         + FiledBy(i - 1, q, y)

RECURSIVE Filed(_, _)
Filed(i, y) == IF i = 0 THEN 0 ELSE RunsFiled(Received(i), y) + Filed(i - 1, y)

Years == {2020, 2021}

Maude == op = "fetch_maude_year_counts"

C7_WitnessEmpty ==
    /\ Maude /\ pc = "done" /\ df = <<>>
    /\ Len(requests) = 2 /\ Ok(1) /\ Ok(2)

C8_WitnessStop ==
    /\ Maude /\ pc = "done" /\ max_records > 0
    /\ Len(requests) = 1 /\ df # <<>>

\* C9: the table fetch_510k returns holds each k_number at most once, the row
\* kept for a k_number is its first occurrence in the concatenation of the
\* successful queries' results, and a failed or empty query does not stop the
\* remaining queries: every query built is requested.
KNumbers(t) == {t[i].k_number : i \in DOMAIN t}

C9_FirstOccurrenceKept ==
    (op = "fetch_510k" /\ pc = "done") =>
      LET all == ReceivedUpTo(Len(responses)) IN
      /\ \A i, j \in DOMAIN df : df[i].k_number = df[j].k_number => i = j
      /\ KNumbers(df) = KNumbers(all)
      /\ \A i \in DOMAIN df :
            \E k \in DOMAIN all :
              /\ all[k] = df[i]
              /\ \A m \in 1..(k - 1) : all[m].k_number # df[i].k_number
      /\ Len(requests) = Len(queries)
      /\ {requests[i].search : i \in DOMAIN requests}
            = build_510k_search(applicant, product_codes)

C9_Witness ==
    /\ op = "fetch_510k" /\ pc = "done"
    /\ Len(requests) = 3
    /\ Ok(1) /\ Failed(2) /\ Ok(3)
    /\ \E i \in DOMAIN Received(1), j \in DOMAIN Received(3) :
          /\ Received(1)[i].k_number = Received(3)[j].k_number
          /\ Received(1)[i] # Received(3)[j]
    /\ Len(df) = 1

\* C10: for every cap and every sequence of responses fetch_reglisting sends
\* at most ceil(max_records / 1000) requests, none when max_records <= 0, and
\* each request's skip is the number of records accumulated when it is sent.
C10_BoundedRequests ==
    Reg =>
      /\ Len(requests) <= Ceil(max_records, 1000)
      /\ max_records <= 0 => Len(requests) = 0
      /\ \A i \in DOMAIN requests : requests[i].skip = requests[i].acc
      /\ (pc = "loop" /\ Len(requests) = Ceil(max_records, 1000))
            => fetched >= max_records

C10_Witness ==
    /\ Reg /\ pc = "done"
    /\ Len(requests) = 2 /\ Ceil(max_records, 1000) = 2
    /\ requests[2].skip = 1001
    /\ len(rows) >= max_records

====
